---- MODULE Spec2Model ----
(***************************************************************************)
(* Model of the p2p-chat node (src/src/main.rs): the startup sequence of   *)
(* main and its event loop, a select! over the stdin line reader and the   *)
(* swarm's event stream.                                                  *)
(*                                                                         *)
(* Environment: the bytes that will arrive on stdin are drawn in Init; the *)
(* network makes events available one at a time (NetArrive) and their      *)
(* content is drawn when the swarm yields them.  Writes to stdout are      *)
(* taken to succeed.                                                       *)
(***************************************************************************)
EXTENDS Integers, Sequences, FiniteSets, TLC

VARIABLES
    pc,         \* position of main: a startup step, "select", "sleep", "exited"
    exitCode,   \* process exit code once pc = "exited" (0 while running)
    diag,       \* diagnostic printed at exit ("none" while running)
    steps,      \* results of the startup steps executed so far, in order
    input,      \* history: the bytes of standard input, as drawn in Init
    stdin,      \* bytes of standard input not yet consumed by the reader
    stdinOpen,  \* FALSE: stdin ends after the bytes of `stdin` (end of stream)
    stdinOff,   \* the stdin branch is disabled in the current select!
    line,       \* the String bound by Ok(Some(line)), as code points
    taken,      \* history: the raw bytes of each line the loop took, in order
    published,  \* history: the payload of each publish attempt, in order
    slept,      \* seconds elapsed since the current line was taken
    netPending, \* swarm events ready to be yielded by select_next_some
    topics,     \* gossipsub's subscriptions
    explicit,   \* gossipsub's explicit-peer set
    before,     \* history: `explicit` when the latest iteration started
    live,       \* history: the pairs mDNS has discovered and not expired since
    branch,     \* branch run by the latest loop iteration: none, stdin, net
    event,      \* the swarm event of the latest iteration (NoEvent otherwise)
    trace       \* what the latest iteration did: stdout records and gossipsub calls

vars == <<pc, exitCode, diag, steps, input, stdin, stdinOpen, stdinOff, line,
          taken, published, slept, netPending, topics, explicit, before, live,
          branch, event, trace>>

----------------------------------------------------------------------------
\* Bounds of the model.

MaxInput == 3   \* bytes of standard input
MaxList == 2    \* (PeerId, address) pairs carried by one mDNS event
MaxNet == 1     \* swarm events that can be ready at once

\* Program constants.

GraceSecs == 2  \* Duration::from_secs(2)
Topic == "xxxxxxxxxxxxxxxxxxxxxxxxxxxxxxxxxxxxxxxxxx"

RECURSIVE BSeq(_, _)
BSeq(S, n) ==
    IF n = 0 THEN {<<>>}
    ELSE LET shorter == BSeq(S, n - 1)
         IN  shorter \cup {Append(s, x) : s \in {t \in shorter : Len(t) = n - 1}, x \in S}

\* 'a', CR, LF and a byte that is valid in no UTF-8 sequence.
StdinBytes == {97, 13, 10, 255}
Inputs == BSeq(StdinBytes, MaxInput)

Peers == {"p1", "p2"}
Pairs == {<<"p1", "a1">>, <<"p1", "a2">>, <<"p2", "a1">>}
PairLists == BSeq(Pairs, MaxList)
\* "a"; an invalid byte; "e-acute" (2 bytes); a 2-byte lead without its
\* continuation byte, then "a"
Payloads == {<<97>>, <<255>>, <<195, 169>>, <<195, 97>>}
MessageIds == {"m1"}
ListenAddrs == {"l1"}
OtherKinds == {"ConnectionEstablished", "Subscribed"}

NoEvent == [kind |-> "none"]

Events ==
    [kind : {"Discovered", "Expired"}, list : PairLists]
    \cup [kind : {"Message"}, peer : Peers, id : MessageIds, data : Payloads]
    \cup [kind : {"NewListenAddr"}, address : ListenAddrs]
    \cup [kind : OtherKinds]

\* The two specifications draw from different sets: Spec draws every input
\* of up to MaxInput bytes and one swarm event of each kind, SpecNet draws
\* every swarm event and a few inputs.
SampleInputs == {<<>>, <<97, 10>>, <<255, 10>>}

SampleEvents ==
    {[kind |-> "Discovered", list |-> <<<<"p1", "a1">>, <<"p2", "a1">>>>],
     [kind |-> "Expired", list |-> <<<<"p1", "a2">>>>],
     [kind |-> "Message", peer |-> "p1", id |-> "m1", data |-> <<255>>],
     [kind |-> "NewListenAddr", address |-> "l1"],
     [kind |-> "ConnectionEstablished"]}

PublishErrors == {"InsufficientPeers", "QueueFull"}

----------------------------------------------------------------------------
\* Text conversions (UTF-8 sequences of one and two bytes; the byte sets
\* above hold no lead byte of a longer sequence).

IsCont(b) == b >= 128 /\ b <= 191
IsLead2(b) == b >= 194 /\ b <= 223

\* std::str::from_utf8(..).is_ok()
RECURSIVE Utf8Valid(_)
Utf8Valid(b) ==
    IF b = <<>> THEN TRUE
    ELSE IF b[1] < 128 THEN Utf8Valid(Tail(b))
    ELSE IF IsLead2(b[1]) /\ Len(b) >= 2 /\ IsCont(b[2])
         THEN Utf8Valid(SubSeq(b, 3, Len(b)))
    ELSE FALSE

\* Faulty variant: the bytes taken as code points, without decoding.
from_utf8_unchecked(b) == b

\* String::from_utf8_lossy: every invalid byte becomes U+FFFD.
RECURSIVE from_utf8_lossy(_)
from_utf8_lossy(b) ==
    IF b = <<>> THEN <<>>
    ELSE IF b[1] < 128 THEN <<b[1]>> \o from_utf8_lossy(Tail(b))
    ELSE IF IsLead2(b[1]) /\ Len(b) >= 2 /\ IsCont(b[2])
         THEN <<(b[1] - 192) * 64 + (b[2] - 128)>> \o from_utf8_lossy(SubSeq(b, 3, Len(b)))
    ELSE <<65533>> \o from_utf8_lossy(Tail(b))

\* str::as_bytes: the UTF-8 encoding of a String.
RECURSIVE as_bytes(_)
as_bytes(s) ==
    IF s = <<>> THEN <<>>
    ELSE IF s[1] < 128 THEN <<s[1]>> \o as_bytes(Tail(s))
    ELSE <<192 + (s[1] \div 64), 128 + (s[1] % 64)>> \o as_bytes(Tail(s))

----------------------------------------------------------------------------
\* tokio's Lines::next_line over the unread bytes.

FirstLF(b) ==
    IF \E i \in 1..Len(b) : b[i] = 10
    THEN CHOOSE i \in 1..Len(b) : b[i] = 10 /\ \A j \in 1..(i - 1) : b[j] # 10
    ELSE 0

\* Faulty variant: only "\n" is stripped, the "\r" of "\r\n" is kept.
StripLF(s) ==
    IF s # <<>> /\ s[Len(s)] = 10 THEN SubSeq(s, 1, Len(s) - 1) ELSE s

\* if buf.ends_with('\n') { buf.pop(); if buf.ends_with('\r') { buf.pop(); } }
StripEol(s) ==
    IF s # <<>> /\ s[Len(s)] = 10
    THEN LET s1 == SubSeq(s, 1, Len(s) - 1)
         IN  IF s1 # <<>> /\ s1[Len(s1)] = 13 THEN SubSeq(s1, 1, Len(s1) - 1) ELSE s1
    ELSE s

\* Ok(None) at the end of the stream, Err(InvalidData) for a line that is
\* not UTF-8 (its bytes are consumed), Ok(Some(line)) otherwise; a last
\* line without "\n" is returned when the stream ends.
next_line(buf, open) ==
    LET i == FirstLF(buf)
        n == IF i > 0 THEN i ELSE Len(buf)
        got == SubSeq(buf, 1, n)
        rest == SubSeq(buf, n + 1, Len(buf))
    IN  IF i = 0 /\ open THEN [kind |-> "pending"]
        ELSE IF got = <<>> THEN [kind |-> "none"]
        ELSE IF ~Utf8Valid(got) THEN [kind |-> "err", raw |-> got, rest |-> rest]
        ELSE [kind |-> "line", line |-> StripEol(from_utf8_lossy(got)),
              raw |-> got, rest |-> rest]

----------------------------------------------------------------------------
InitWith(In) ==
    /\ pc = "with_tcp"
    /\ exitCode = 0
    /\ diag = "none"
    /\ steps = <<>>
    /\ stdin \in In
    /\ input = stdin
    /\ stdinOpen \in BOOLEAN
    /\ stdinOff = FALSE
    /\ line = <<>>
    /\ taken = <<>>
    /\ published = <<>>
    /\ slept = 0
    /\ netPending = 0
    /\ topics = {}
    /\ explicit = {}
    /\ before = {}
    /\ live = {}
    /\ branch = "none"
    /\ event = NoEvent
    /\ trace = <<>>

Init == InitWith(Inputs)

InitNet == InitWith(SampleInputs)

----------------------------------------------------------------------------
\* How main ends during startup.

\* `?` in main: main returns Err, the runtime prints it and exits with 1.
ReturnErr(cause) ==
    /\ pc' = "exited"
    /\ exitCode' = 1
    /\ diag' = cause

\* .expect("error"): the panic message is printed and the process exits with 101.
Panic(cause) ==
    /\ pc' = "exited"
    /\ exitCode' = 101
    /\ diag' = cause

Continue(next) ==
    /\ pc' = next
    /\ UNCHANGED <<exitCode, diag>>

loopVars == <<input, stdin, stdinOpen, stdinOff, line, taken, published, slept,
              netPending, explicit, before, live, branch, event>>

\* SwarmBuilder ... .with_tcp(..)?
WithTcp ==
    /\ pc = "with_tcp"
    /\ \E r \in {"ok", "transport_err"} :
        /\ steps' = Append(steps, <<"with_tcp", r>>)
        /\ IF r = "ok" THEN Continue("with_behaviour") ELSE ReturnErr(r)
    /\ UNCHANGED <<loopVars, topics, trace>>

\* Faulty variant: the subscription is left out of the startup sequence.
WithBehaviourSkipSubscribe ==
    /\ pc = "with_behaviour"
    /\ \E r \in {"ok", "gossipsub_err", "mdns_err"} :
        /\ steps' = Append(steps, <<"with_behaviour", r>>)
        /\ IF r = "ok" THEN Continue("listen_quic")
           ELSE IF r = "gossipsub_err" THEN Panic(r)
           ELSE ReturnErr(r)
    /\ UNCHANGED <<loopVars, topics, trace>>

\* .with_behaviour(|key| { gossipsub::Behaviour::new(..).expect("error");
\*                         mdns::tokio::Behaviour::new(..)?; .. })?
WithBehaviour ==
    /\ pc = "with_behaviour"
    /\ \E r \in {"ok", "gossipsub_err", "mdns_err"} :
        /\ steps' = Append(steps, <<"with_behaviour", r>>)
        /\ IF r = "ok" THEN Continue("subscribe")
           ELSE IF r = "gossipsub_err" THEN Panic(r)
           ELSE ReturnErr(r)
    /\ UNCHANGED <<loopVars, topics, trace>>

\* swarm.behaviour_mut().gossipsub.subscribe(&topic)?
Subscribe ==
    /\ pc = "subscribe"
    /\ \E r \in {"ok", "subscription_err"} :
        /\ steps' = Append(steps, <<"subscribe", r>>)
        /\ IF r = "ok"
           THEN /\ Continue("listen_quic")
                /\ topics' = topics \cup {Topic}
           ELSE /\ ReturnErr(r)
                /\ UNCHANGED topics
    /\ UNCHANGED <<loopVars, trace>>

\* Faulty variant: the result of the first listen_on is ignored.
ListenQuicIgnoreErr ==
    /\ pc = "listen_quic"
    /\ \E r \in {"ok", "parse_err", "listen_err"} :
        /\ steps' = Append(steps, <<"listen_quic", r>>)
        /\ Continue("listen_tcp")
    /\ UNCHANGED <<loopVars, topics, trace>>

\* swarm.listen_on("/ip4/0.0.0.0/udp/0/quic-v1".parse()?)?
ListenQuic ==
    /\ pc = "listen_quic"
    /\ \E r \in {"ok", "parse_err", "listen_err"} :
        /\ steps' = Append(steps, <<"listen_quic", r>>)
        /\ IF r = "ok" THEN Continue("listen_tcp") ELSE ReturnErr(r)
    /\ UNCHANGED <<loopVars, topics, trace>>

\* Faulty variant: the result of the second listen_on is ignored.
ListenTcpIgnoreErr ==
    /\ pc = "listen_tcp"
    /\ \E r \in {"ok", "parse_err", "listen_err"} :
        /\ steps' = Append(steps, <<"listen_tcp", r>>)
        /\ Continue("select")
        /\ trace' = <<[t |-> "out", msg |-> "banner"]>>
    /\ UNCHANGED <<loopVars, topics>>

\* swarm.listen_on("/ip4/0.0.0.0/tcp/0".parse()?)?; println!(banner); loop
ListenTcp ==
    /\ pc = "listen_tcp"
    /\ \E r \in {"ok", "parse_err", "listen_err"} :
        /\ steps' = Append(steps, <<"listen_tcp", r>>)
        /\ IF r = "ok"
           THEN /\ Continue("select")
                /\ trace' = <<[t |-> "out", msg |-> "banner"]>>
           ELSE /\ ReturnErr(r)
                /\ UNCHANGED trace
    /\ UNCHANGED <<loopVars, topics>>

----------------------------------------------------------------------------
\* The event loop.

startupVars == <<exitCode, diag, steps, topics, input>>

\* Faulty variant: only the first line waits.
StdinLineFirstDelayOnly ==
    /\ pc = "select"
    /\ ~stdinOff
    /\ LET r == next_line(stdin, stdinOpen)
       IN  /\ r.kind = "line"
           /\ line' = r.line
           /\ taken' = Append(taken, r.raw)
           /\ stdin' = r.rest
    /\ pc' = "sleep"
    /\ slept' = IF taken = <<>> THEN 0 ELSE GraceSecs
    /\ before' = explicit
    /\ branch' = "stdin"
    /\ event' = NoEvent
    /\ trace' = <<>>
    /\ UNCHANGED <<startupVars, live, stdinOpen, stdinOff, published, netPending, explicit>>

\* select!: stdin.next_line() completed with Ok(Some(line)); the branch
\* body starts and reaches sleep(..).await.
StdinLine ==
    /\ pc = "select"
    /\ ~stdinOff
    /\ LET r == next_line(stdin, stdinOpen)
       IN  /\ r.kind = "line"
           /\ line' = r.line
           /\ taken' = Append(taken, r.raw)
           /\ stdin' = r.rest
    /\ pc' = "sleep"
    /\ slept' = 0
    /\ before' = explicit
    /\ branch' = "stdin"
    /\ event' = NoEvent
    /\ trace' = <<>>
    /\ UNCHANGED <<startupVars, live, stdinOpen, stdinOff, published, netPending, explicit>>

\* Faulty variant: the end of input ends the loop (main returns Ok(())).
StdinNoMatchBreak ==
    /\ pc = "select"
    /\ ~stdinOff
    /\ LET r == next_line(stdin, stdinOpen)
       IN  /\ r.kind \in {"none", "err"}
           /\ stdin' = IF r.kind = "err" THEN r.rest ELSE stdin
           /\ IF r.kind = "none"
              THEN pc' = "exited" /\ UNCHANGED stdinOff
              ELSE stdinOff' = TRUE /\ UNCHANGED pc
    /\ UNCHANGED <<startupVars, live, stdinOpen, line, taken, published, slept,
                   netPending, explicit, before, branch, event, trace>>

\* select!: stdin.next_line() completed with Ok(None) or with Err(_) for a
\* line that is not UTF-8 (the reader has consumed it): the pattern does not
\* match, the branch is disabled and the select! keeps waiting on the swarm.
StdinNoMatch ==
    /\ pc = "select"
    /\ ~stdinOff
    /\ LET r == next_line(stdin, stdinOpen)
       IN  /\ r.kind \in {"none", "err"}
           /\ stdin' = IF r.kind = "err" THEN r.rest ELSE stdin
    /\ stdinOff' = TRUE
    /\ UNCHANGED <<startupVars, live, pc, stdinOpen, line, taken, published, slept,
                   netPending, explicit, before, branch, event, trace>>

\* select!: stdin.next_line() completed with Err(_) of the read itself.
StdinIoErr ==
    /\ pc = "select"
    /\ ~stdinOff
    /\ stdinOff' = TRUE
    /\ UNCHANGED <<startupVars, live, pc, stdin, stdinOpen, line, taken, published,
                   slept, netPending, explicit, before, branch, event, trace>>

\* One second passes while the branch body is in sleep(..).await.
Tick ==
    /\ pc = "sleep"
    /\ slept < GraceSecs
    /\ slept' = slept + 1
    /\ UNCHANGED <<startupVars, live, pc, stdin, stdinOpen, stdinOff, line, taken,
                   published, netPending, explicit, before, branch, event, trace>>

PublishCall(data, r) ==
    [t |-> "call", op |-> "publish", topic |-> Topic, data |-> data, result |-> r]

\* What publish(..) and the `if let Err(e)` around it leave behind.
PublishTrace(l, r) ==
    <<PublishCall(as_bytes(l), r)>>
    \o (IF r = "ok" THEN <<>> ELSE <<[t |-> "out", msg |-> "Publish error", err |-> r]>>)

\* Faulty variant: the publish error is propagated with `?`.
PublishPropagate ==
    /\ pc = "sleep"
    /\ slept = GraceSecs
    /\ \E r \in {"ok"} \cup PublishErrors :
        /\ trace' = <<PublishCall(as_bytes(line), r)>>
        /\ IF r = "ok"
           THEN /\ pc' = "select"
                /\ UNCHANGED <<exitCode, diag>>
           ELSE ReturnErr(r)
    /\ published' = Append(published, as_bytes(line))
    /\ stdinOff' = FALSE
    /\ line' = <<>>
    /\ slept' = 0
    /\ UNCHANGED <<steps, topics, input, live, stdin, stdinOpen, taken, netPending, explicit,
                   before, branch, event>>

\* Faulty variant: a failed publish is attempted again after another delay.
PublishRetry ==
    /\ pc = "sleep"
    /\ slept = GraceSecs
    /\ \E r \in {"ok"} \cup PublishErrors :
        /\ trace' = PublishTrace(line, r)
        /\ IF r = "ok"
           THEN pc' = "select" /\ line' = <<>>
           ELSE pc' = "sleep" /\ line' = line
    /\ published' = Append(published, as_bytes(line))
    /\ stdinOff' = FALSE
    /\ slept' = 0
    /\ UNCHANGED <<startupVars, live, stdin, stdinOpen, taken, netPending, explicit,
                   before, branch, event>>

\* The sleep has completed: publish(topic.clone(), line.as_bytes()), the
\* error report, the end of the branch body (`line` is dropped) and back to
\* the top of the loop.
Publish ==
    /\ pc = "sleep"
    /\ slept = GraceSecs
    /\ \E r \in {"ok"} \cup PublishErrors : trace' = PublishTrace(line, r)
    /\ published' = Append(published, as_bytes(line))
    /\ pc' = "select"
    /\ stdinOff' = FALSE
    /\ line' = <<>>
    /\ slept' = 0
    /\ UNCHANGED <<startupVars, live, stdin, stdinOpen, taken, netPending, explicit,
                   before, branch, event>>

\* The network makes one more event ready for the swarm.
NetArrive ==
    /\ pc \in {"select", "sleep"}
    /\ netPending < MaxNet
    /\ netPending' = netPending + 1
    /\ UNCHANGED <<startupVars, live, pc, stdin, stdinOpen, stdinOff, line, taken,
                   published, slept, explicit, before, branch, event, trace>>

add_explicit_peer(ex, p) == ex \cup {p}
remove_explicit_peer(ex, p) == ex \ {p}

PeerCall(op, p) == [t |-> "call", op |-> op, peer |-> p]
PeerOut(msg, p) == [t |-> "out", msg |-> msg, peer |-> p]

\* Faulty variant: a peer that is already explicit is skipped.
RECURSIVE DiscoveredDedup(_, _)
DiscoveredDedup(list, ex) ==
    IF list = <<>> THEN [explicit |-> ex, trace |-> <<>>]
    ELSE LET p == list[1][1]
             r == DiscoveredDedup(Tail(list), add_explicit_peer(ex, p))
         IN  [explicit |-> r.explicit,
              trace |-> (IF p \in ex THEN <<>>
                         ELSE <<PeerOut("mDNS discovered a new peer", p),
                                PeerCall("add_explicit_peer", p),
                                PeerOut("Added explicit peer", p)>>) \o r.trace]

\* for (peer_id, _multiaddr) in list { println!; add_explicit_peer; println! }
RECURSIVE Discovered(_, _)
Discovered(list, ex) ==
    IF list = <<>> THEN [explicit |-> ex, trace |-> <<>>]
    ELSE LET p == list[1][1]
             r == Discovered(Tail(list), add_explicit_peer(ex, p))
         IN  [explicit |-> r.explicit,
              trace |-> <<PeerOut("mDNS discovered a new peer", p),
                          PeerCall("add_explicit_peer", p),
                          PeerOut("Added explicit peer", p)>> \o r.trace]

\* Faulty variant: only the first pair of the list is handled.
ExpiredFirstOnly(list, ex) ==
    IF list = <<>> THEN [explicit |-> ex, trace |-> <<>>]
    ELSE LET p == list[1][1]
         IN  [explicit |-> remove_explicit_peer(ex, p),
              trace |-> <<PeerOut("mDNS discover peer has expired", p),
                          PeerCall("remove_explicit_peer", p)>>]

\* for (peer_id, _multiaddr) in list { println!; remove_explicit_peer }
RECURSIVE Expired(_, _)
Expired(list, ex) ==
    IF list = <<>> THEN [explicit |-> ex, trace |-> <<>>]
    ELSE LET p == list[1][1]
             r == Expired(Tail(list), remove_explicit_peer(ex, p))
         IN  [explicit |-> r.explicit,
              trace |-> <<PeerOut("mDNS discover peer has expired", p),
                          PeerCall("remove_explicit_peer", p)>> \o r.trace]

\* println!("Got message: '{}' with id: {id} from peer: {peer_id}", ..)
GotMessage(ev) ==
    <<[t |-> "out", msg |-> "Got message", text |-> from_utf8_lossy(ev.data),
       id |-> ev.id, peer |-> ev.peer]>>

\* Faulty variant: the catch-all arm prints the event it does not know.
HandleLogOther(ev, ex) ==
    CASE ev.kind = "Discovered" -> Discovered(ev.list, ex)
      [] ev.kind = "Expired" -> Expired(ev.list, ex)
      [] ev.kind = "Message" -> [explicit |-> ex, trace |-> GotMessage(ev)]
      [] ev.kind = "NewListenAddr" ->
            [explicit |-> ex,
             trace |-> <<[t |-> "out", msg |-> "Local node is listening on",
                          address |-> ev.address]>>]
      [] OTHER -> [explicit |-> ex,
                   trace |-> <<[t |-> "out", msg |-> "Unhandled event", kind |-> ev.kind]>>]

\* match event { .. }
Handle(ev, ex) ==
    CASE ev.kind = "Discovered" -> Discovered(ev.list, ex)
      [] ev.kind = "Expired" -> Expired(ev.list, ex)
      [] ev.kind = "Message" -> [explicit |-> ex, trace |-> GotMessage(ev)]
      [] ev.kind = "NewListenAddr" ->
            [explicit |-> ex,
             trace |-> <<[t |-> "out", msg |-> "Local node is listening on",
                          address |-> ev.address]>>]
      [] OTHER -> [explicit |-> ex, trace |-> <<>>]

\* What mDNS holds after reporting `ev`: the pairs of a Discovered event
\* are added, those of an Expired event are dropped.
Live(ev, lv) ==
    CASE ev.kind = "Discovered" -> lv \cup {ev.list[i] : i \in 1..Len(ev.list)}
      [] ev.kind = "Expired" -> lv \ {ev.list[i] : i \in 1..Len(ev.list)}
      [] OTHER -> lv

\* Faulty variant: the swarm is also polled while the stdin branch sleeps.
HandleNetDuringSleep(Evs) ==
    /\ pc \in {"select", "sleep"}
    /\ netPending > 0
    /\ \E ev \in Evs :
        LET r == Handle(ev, explicit)
        IN  /\ event' = ev
            /\ explicit' = r.explicit
            /\ trace' = r.trace
            /\ live' = Live(ev, live)
    /\ netPending' = netPending - 1
    /\ before' = explicit
    /\ branch' = "net"
    /\ stdinOff' = FALSE
    /\ UNCHANGED <<startupVars, pc, stdin, stdinOpen, line, taken, published, slept>>

\* Faulty variant: the read in flight is not cancel safe: the line it was
\* about to return is gone when the swarm branch is taken.
HandleNetDropsLine(Evs) ==
    /\ pc = "select"
    /\ netPending > 0
    /\ \E ev \in Evs :
        LET r == Handle(ev, explicit)
        IN  /\ event' = ev
            /\ explicit' = r.explicit
            /\ trace' = r.trace
            /\ live' = Live(ev, live)
    /\ LET n == next_line(stdin, stdinOpen)
       IN  stdin' = IF ~stdinOff /\ n.kind = "line" THEN n.rest ELSE stdin
    /\ netPending' = netPending - 1
    /\ before' = explicit
    /\ branch' = "net"
    /\ stdinOff' = FALSE
    /\ UNCHANGED <<startupVars, pc, stdinOpen, line, taken, published, slept>>

\* Faulty variant: the explicit peers follow the addresses mDNS still holds,
\* so a peer stays while one of its addresses has not expired.
HandleNetByAddress(Evs) ==
    /\ pc = "select"
    /\ netPending > 0
    /\ \E ev \in Evs :
        LET r == Handle(ev, explicit)
            lv == Live(ev, live)
        IN  /\ event' = ev
            /\ explicit' = IF ev.kind \in {"Discovered", "Expired"}
                            THEN {q[1] : q \in lv}
                            ELSE r.explicit
            /\ trace' = r.trace
            /\ live' = lv
    /\ netPending' = netPending - 1
    /\ before' = explicit
    /\ branch' = "net"
    /\ stdinOff' = FALSE
    /\ UNCHANGED <<startupVars, pc, stdin, stdinOpen, line, taken, published, slept>>

\* select!: swarm.select_next_some() yielded `event`; its match arm runs to
\* the end and the loop goes back to the top.
HandleNet(Evs) ==
    /\ pc = "select"
    /\ netPending > 0
    /\ \E ev \in Evs :
        LET r == Handle(ev, explicit)
        IN  /\ event' = ev
            /\ explicit' = r.explicit
            /\ trace' = r.trace
            /\ live' = Live(ev, live)
    /\ netPending' = netPending - 1
    /\ before' = explicit
    /\ branch' = "net"
    /\ stdinOff' = FALSE
    /\ UNCHANGED <<startupVars, pc, stdin, stdinOpen, line, taken, published, slept>>

Step ==
    \/ WithTcp
    \/ WithBehaviour
    \/ Subscribe
    \/ ListenQuic
    \/ ListenTcp
    \/ StdinLine
    \/ StdinNoMatch
    \/ StdinIoErr
    \/ Tick
    \/ Publish
    \/ NetArrive

Next ==
    \/ Step
    \/ HandleNet(SampleEvents)

NextNet ==
    \/ Step
    \/ HandleNet(Events)

\* Every input, one swarm event of each kind.
Spec == Init /\ [][Next]_vars

\* Every swarm event, a few inputs.
SpecNet == InitNet /\ [][NextNet]_vars

\* Spec with the scheduling the runtime gives: a sleep that was started
\* completes and its branch body runs to the end, a read that can complete
\* does, and select! picks among the ready branches at random, so a branch
\* that is ready again and again is picked.  Nothing is assumed of the
\* network or of read errors.
Fairness ==
    /\ WF_vars(Tick)
    /\ WF_vars(Publish)
    /\ SF_vars(StdinNoMatch)
    /\ SF_vars(StdinLine)
    /\ SF_vars(HandleNet(SampleEvents))

SpecFair == Init /\ [][Next]_vars /\ Fairness

----------------------------------------------------------------------------
\* Properties.

InLoop == pc \in {"select", "sleep"}

Calls(tr) == SelectSeq(tr, LAMBDA r : r.t = "call")
Outs(tr) == SelectSeq(tr, LAMBDA r : r.t = "out")

\* The bytes of a raw line without its terminator ("\n" or "\r\n").
WithoutTerminator(b) ==
    IF b # <<>> /\ b[Len(b)] = 10
    THEN IF Len(b) >= 2 /\ b[Len(b) - 1] = 13
         THEN SubSeq(b, 1, Len(b) - 2)
         ELSE SubSeq(b, 1, Len(b) - 1)
    ELSE b

PeersOf(list) == {list[i][1] : i \in 1..Len(list)}

StartupSteps == {"with_tcp", "with_behaviour", "subscribe", "listen_quic", "listen_tcp"}

\* C1: a publish attempt that returns an error leaves a "Publish error"
\* record carrying that error, and main is back at the select!, still
\* running: no exit code, no diagnostic.
C1_PublishErrorReported ==
    (branch = "stdin" /\ trace # <<>> /\ trace[1].result # "ok") =>
        /\ pc = "select"
        /\ exitCode = 0
        /\ diag = "none"
        /\ trace = <<PublishCall(published[Len(published)], trace[1].result),
                     [t |-> "out", msg |-> "Publish error", err |-> trace[1].result]>>

\* A publish failed with a full queue, the loop is at the select! again and
\* more input is waiting to be read.
C1_Witness ==
    /\ pc = "select"
    /\ branch = "stdin"
    /\ Len(trace) = 2
    /\ trace[1].result = "QueueFull"
    /\ stdin # <<>>

\* C2: every publish attempt is on the topic subscribed at startup and its
\* payload is the bytes of the line taken from input, without the line
\* terminator and with nothing else removed, added or changed.
C2_PayloadIsLine ==
    /\ Len(published) <= Len(taken)
    /\ \A i \in 1..Len(published) :
        /\ published[i] = WithoutTerminator(taken[i])
        /\ \A j \in 1..Len(published[i]) : published[i][j] # 10
    /\ (branch = "stdin" /\ trace # <<>>) =>
        /\ trace[1].op = "publish"
        /\ trace[1].topic = Topic
        /\ trace[1].topic \in topics
        /\ trace[1].data = WithoutTerminator(taken[Len(taken)])

\* The line "a\r\n" was published as "a".
C2_Witness ==
    /\ branch = "stdin"
    /\ trace # <<>>
    /\ taken[Len(taken)] = <<97, 13, 10>>
    /\ trace[1].data = <<97>>

\* C3 as stated: handling a peer-discovered event issues one
\* add_explicit_peer per pair of the list, in order, and emits one stdout
\* record per pair.
C3_OneRecordPerPair ==
    (branch = "net" /\ event.kind = "Discovered") =>
        /\ Calls(trace) = [i \in 1..Len(event.list) |->
                              PeerCall("add_explicit_peer", event.list[i][1])]
        /\ Len(Outs(trace)) = Len(event.list)

\* C3 (amended): handling a peer-discovered event issues, for each pair of
\* the list in order, one "discovered" record, one add_explicit_peer for
\* the pair's PeerId and one "added" record, whether or not the peer was
\* already explicit or already named earlier in the list.
C3_DiscoveredAddsEachPair ==
    (branch = "net" /\ event.kind = "Discovered") =>
        /\ Len(trace) = 3 * Len(event.list)
        /\ \A i \in 1..Len(event.list) :
            LET p == event.list[i][1]
            IN  /\ trace[3 * i - 2] = PeerOut("mDNS discovered a new peer", p)
                /\ trace[3 * i - 1] = PeerCall("add_explicit_peer", p)
                /\ trace[3 * i] = PeerOut("Added explicit peer", p)
        /\ explicit = before \cup PeersOf(event.list)

\* A peer that was already explicit is discovered again, under two
\* addresses in one event: two directives are issued for it.
C3_Witness ==
    /\ branch = "net"
    /\ event = [kind |-> "Discovered", list |-> <<<<"p1", "a1">>, <<"p1", "a2">>>>]
    /\ "p1" \in before
    /\ Len(Calls(trace)) = 2

\* C4: after a peer-expired event is handled no PeerId of its list is in
\* the explicit-peer set, the other peers are kept, and one
\* remove_explicit_peer was issued per pair, in order.
C4_ExpiredRemovesEachPeer ==
    (branch = "net" /\ event.kind = "Expired") =>
        /\ \A i \in 1..Len(event.list) : event.list[i][1] \notin explicit
        /\ explicit = before \ PeersOf(event.list)
        /\ Calls(trace) = [i \in 1..Len(event.list) |->
                              PeerCall("remove_explicit_peer", event.list[i][1])]

\* Both explicit peers expire in one event.
C4_Witness ==
    /\ branch = "net"
    /\ event = [kind |-> "Expired", list |-> <<<<"p1", "a2">>, <<"p2", "a1">>>>]
    /\ before = {"p1", "p2"}
    /\ explicit = {}

\* The lossy decoding of each payload, written out.
ExpectedText(data) ==
    CASE data = <<97>> -> <<97>>
      [] data = <<255>> -> <<65533>>
      [] data = <<195, 169>> -> <<233>>
      [] data = <<195, 97>> -> <<65533, 97>>

\* C5: handling a message-received event emits exactly one record, holding
\* the sender, the message id and the lossy decoding of the payload (U+FFFD
\* for each invalid byte), and main is back at the select!, still running.
C5_MessageOneRecord ==
    (branch = "net" /\ event.kind = "Message") =>
        /\ trace = <<[t |-> "out", msg |-> "Got message",
                      text |-> ExpectedText(event.data),
                      id |-> event.id, peer |-> event.peer]>>
        /\ InLoop
        /\ exitCode = 0
        /\ explicit = before

\* A payload that is not UTF-8 was printed with the replacement character.
C5_Witness ==
    /\ branch = "net"
    /\ event.kind = "Message"
    /\ event.data = <<195, 97>>
    /\ trace[1].text = <<65533, 97>>
    /\ pc = "select"

\* C6: once main is in the loop every step leaves it in the loop, with no
\* exit code and no diagnostic: a line, the end of input, a read error and
\* every swarm event all lead back to the select!.
C6_LoopNeverEnds ==
    [][InLoop => (InLoop' /\ exitCode' = 0 /\ diag' = "none")]_vars

\* Input is at its end, every line was published, a swarm event was
\* handled after that and next_line gave no line once more.
C6_Witness ==
    /\ pc = "select"
    /\ ~stdinOpen
    /\ stdin = <<>>
    /\ stdinOff
    /\ published # <<>>
    /\ branch = "net"

\* C7: a startup step that fails is the last step executed: the process
\* has exited with a non-zero code and the failure as its diagnostic, the
\* loop was never entered, nothing was read or published and no peer
\* directive was issued; the loop is entered only after every step succeeded.
C7_StartupFailureFatal ==
    /\ \A i \in 1..Len(steps) :
        steps[i][2] # "ok" =>
            /\ i = Len(steps)
            /\ pc = "exited"
            /\ exitCode # 0
            /\ diag = steps[i][2]
            /\ branch = "none"
            /\ trace = <<>>
            /\ taken = <<>>
            /\ published = <<>>
            /\ explicit = {}
    /\ InLoop =>
        /\ {steps[i][1] : i \in 1..Len(steps)} = StartupSteps
        /\ \A i \in 1..Len(steps) : steps[i][2] = "ok"

\* The second listener could not be bound, after every earlier step succeeded.
C7_Witness ==
    /\ pc = "exited"
    /\ Len(steps) = Cardinality(StartupSteps)
    /\ steps[Len(steps)] = <<"listen_tcp", "listen_err">>
    /\ exitCode = 1

\* C8 as stated: whenever the reader consumes bytes of input, those bytes
\* are a line taken for publication (valid UTF-8 or not), never dropped.
C8_InvalidLineTransmitted ==
    [][stdin' # stdin =>
        /\ pc' = "sleep"
        /\ Len(taken') = Len(taken) + 1
        /\ taken'[Len(taken')] \o stdin' = stdin]_vars

\* C9: while a line is held for its grace delay no other handler runs: the
\* latest iteration stays the stdin one, no swarm event is taken, the
\* explicit-peer set is not touched, no input is read, and the only thing
\* the loop does is the publish attempt of that line.
C9_NoHandlerDuringGrace ==
    [][pc = "sleep" =>
        /\ branch = "stdin"
        /\ branch' = "stdin"
        /\ event' = event
        /\ explicit' = explicit
        /\ before' = before
        /\ netPending' >= netPending
        /\ stdin' = stdin
        /\ taken' = taken
        /\ \/ pc' = "sleep" /\ trace' = trace /\ published' = published
           \/ /\ pc' = "select"
              /\ published' = Append(published, as_bytes(line))
              /\ Calls(trace') = <<trace'[1]>>
              /\ trace'[1].op = "publish"]_vars

\* A swarm event is ready while the line's delay has fully elapsed and the
\* line is not yet published.
C9_Witness ==
    /\ pc = "sleep"
    /\ slept = GraceSecs
    /\ netPending > 0
    /\ trace = <<>>

\* C10: taking a line starts a delay of its own at zero, the clock of the
\* delay only moves forward one second at a time, and a publish attempt
\* happens only from the delay of the latest line taken, once GraceSecs
\* seconds have elapsed.
C10_EveryLineDelayed ==
    [][/\ (pc = "select" /\ pc' = "sleep") =>
            (slept' = 0 /\ Len(taken') = Len(taken) + 1)
       /\ (pc = "sleep" /\ pc' = "sleep") => slept' \in {slept, slept + 1}
       /\ published' # published =>
            /\ pc = "sleep"
            /\ slept = GraceSecs
            /\ Len(published') = Len(taken)]_vars

\* The second line of the input has waited its full delay.
C10_Witness ==
    /\ pc = "sleep"
    /\ Len(taken) = 2
    /\ Len(published) = 1
    /\ slept = GraceSecs

\* The step is the swarm branch: one ready event is taken.
NetStep == netPending' < netPending

\* C11: handling a swarm event of any other kind changes nothing but the
\* swarm's own queue: no stdout record, no gossipsub call, the explicit-peer
\* set, the unread input, the lines taken and the payloads published are
\* as before, and main is back at the select!.
C11_OtherEventNoOp ==
    [][(NetStep /\ event'.kind \in OtherKinds) =>
        /\ trace' = <<>>
        /\ explicit' = explicit
        /\ stdin' = stdin
        /\ line' = line
        /\ taken' = taken
        /\ published' = published
        /\ topics' = topics
        /\ pc' = "select"
        /\ exitCode' = 0]_vars

\* A gossipsub Subscribed event was handled while a peer was explicit and
\* a line of input was waiting: nothing was printed or called.
C11_Witness ==
    /\ branch = "net"
    /\ event = [kind |-> "Subscribed"]
    /\ trace = <<>>
    /\ explicit = {"p1"}
    /\ before = {"p1"}
    /\ stdin = <<97, 10>>

StepOk(name) == \E i \in 1..Len(steps) : steps[i] = <<name, "ok">>

\* C12 as stated: the node is subscribed to the topic only once both
\* listeners are bound.
C12_SubscribeAfterBinds ==
    Topic \in topics => (StepOk("listen_quic") /\ StepOk("listen_tcp"))

\* The order of the startup steps in main.
StartupOrder == <<"with_tcp", "with_behaviour", "subscribe", "listen_quic", "listen_tcp">>

\* C12 (amended): the startup steps run once each, in the order: build the
\* swarm, subscribe to the topic, bind the QUIC listener, bind the TCP
\* listener; a listener is bound only once the node is subscribed, the TCP
\* one only after the QUIC one, and the loop is entered only after all of
\* them succeeded.
C12_StartupOrder ==
    /\ Len(steps) <= Len(StartupOrder)
    /\ \A i \in 1..Len(steps) :
        /\ steps[i][1] = StartupOrder[i]
        /\ i < Len(steps) => steps[i][2] = "ok"
    /\ (Topic \in topics) <=> StepOk("subscribe")
    /\ (\E i \in 1..Len(steps) : steps[i][1] = "listen_quic") => Topic \in topics
    /\ (\E i \in 1..Len(steps) : steps[i][1] = "listen_tcp") => StepOk("listen_quic")
    /\ InLoop => (Len(steps) = Len(StartupOrder) /\ StepOk("listen_tcp"))

\* The node is subscribed and the QUIC listener is bound; the TCP listener
\* is not bound yet.
C12_Witness ==
    /\ pc = "listen_tcp"
    /\ Topic \in topics
    /\ StepOk("listen_quic")
    /\ ~StepOk("listen_tcp")

\* C13: the publish attempts made so far are one per line taken, except for
\* the line now waiting out its delay, which has none yet; an attempt, failed
\* or not, is a single publish call and leaves no line held for another try.
C13_ExactlyOneAttempt ==
    /\ pc = "sleep" => Len(published) + 1 = Len(taken)
    /\ pc # "sleep" => (Len(published) = Len(taken) /\ line = <<>>)
    /\ (branch = "stdin" /\ trace # <<>>) =>
        /\ Len(Calls(trace)) = 1
        /\ pc = "select"

\* The only line was attempted once, the attempt failed, and the loop is
\* waiting at the select! again with nothing left to publish.
C13_Witness ==
    /\ pc = "select"
    /\ branch = "stdin"
    /\ trace # <<>>
    /\ trace[1].result = "InsufficientPeers"
    /\ Len(taken) = 1
    /\ Len(published) = 1
    /\ stdinOff

\* The unread input holds a line that next_line will return as Ok(Some(..)).
RECURSIVE HasLine(_, _)
HasLine(buf, open) ==
    LET r == next_line(buf, open)
    IN  CASE r.kind = "line" -> TRUE
          [] r.kind = "err" -> HasLine(r.rest, open)
          [] OTHER -> FALSE

\* Every swarm event that is ready is eventually taken by the loop.
NetServed == \A k \in 1..MaxNet : (netPending = k) ~> (netPending < k)

\* Once main is in the loop, every line waiting in the input is eventually
\* published.
LineServed ==
    \A n \in 0..MaxInput :
        (InLoop /\ HasLine(stdin, stdinOpen) /\ Len(published) = n)
            ~> (Len(published) > n)

\* C14 as stated: under fair selection among the ready branches, every
\* ready swarm event is eventually handled and every line waiting in the
\* input is eventually published.
C14_NoStarvation == NetServed /\ LineServed

----------------------------------------------------------------------------
\* C15: a PeerId is an explicit peer exactly when the latest event that
\* mentioned it was a discovery.  No peer is explicit before any event; a
\* handled Discovered event makes every PeerId of its list explicit, a
\* handled Expired event makes every PeerId of its list not explicit,
\* whatever the addresses paired with it, and every other PeerId, like
\* every other step, leaves the membership as it was.
Mentions(ev, p) ==
    /\ ev.kind \in {"Discovered", "Expired"}
    /\ p \in PeersOf(ev.list)

C15_ExplicitIsLatestMention ==
    /\ explicit = {}
    /\ [][\A p \in Peers :
            IF NetStep /\ Mentions(event', p)
            THEN (p \in explicit') <=> (event'.kind = "Discovered")
            ELSE (p \in explicit') <=> (p \in explicit)]_vars

\* An Expired event named p1 with address a2 while mDNS still holds p1 at
\* a1, discovered earlier: p1 is no longer an explicit peer.
C15_Witness ==
    /\ branch = "net"
    /\ event.kind = "Expired"
    /\ event.list = <<<<"p1", "a2">>>>
    /\ <<"p1", "a1">> \in live
    /\ "p1" \in before
    /\ "p1" \notin explicit

----------------------------------------------------------------------------
\* Startup has completed: the node is subscribed to the topic and both
\* listen_on calls have returned Ok.
StartupDone ==
    /\ Topic \in topics
    /\ StepOk("subscribe")
    /\ StepOk("listen_quic")
    /\ StepOk("listen_tcp")

\* C16: no publish attempt and no add/remove peer directive is issued
\* before startup has completed: whenever a publish has been attempted, a
\* call to gossipsub has just been made or a peer is explicit, the node is
\* subscribed to the topic and both listen calls have returned Ok.
C16_NothingBeforeStartup ==
    (published # <<>> \/ Calls(trace) # <<>> \/ explicit # {}) => StartupDone

\* A line has been published and a peer has been made explicit.
C16_Witness ==
    /\ Len(published) = 1
    /\ explicit # {}
    /\ StartupDone
    /\ Len(steps) = Len(StartupOrder)

----------------------------------------------------------------------------
\* The lines the loop gets from a buffer, in order, each with its
\* terminator: what successive next_line calls return as Ok(Some(..)).
RECURSIVE ReadableLines(_, _)
ReadableLines(buf, open) ==
    LET r == next_line(buf, open)
    IN  CASE r.kind = "line" -> <<r.raw>> \o ReadableLines(r.rest, open)
          [] r.kind = "err" -> ReadableLines(r.rest, open)
          [] OTHER -> <<>>

\* C17: publish attempts occur in the order the lines were read, and no
\* line is lost when the swarm branch is taken: the lines taken so far
\* followed by those still to be read are the lines of the whole input in
\* their order, the i-th publish attempt carries the i-th line taken, and
\* the only line taken and not yet attempted is the one held by the branch
\* body during its delay.
C17_PublishInReadOrder ==
    /\ taken \o ReadableLines(stdin, stdinOpen) = ReadableLines(input, stdinOpen)
    /\ Len(published) <= Len(taken)
    /\ Len(taken) <= Len(published) + 1
    /\ \A i \in 1..Len(published) : published[i] = WithoutTerminator(taken[i])
    /\ Len(published) < Len(taken) =>
        /\ pc = "sleep"
        /\ as_bytes(line) = WithoutTerminator(taken[Len(taken)])

\* The first of two lines was read and published, then a swarm event was
\* handled while the second line was waiting; it is still there to be read.
C17_Witness ==
    /\ pc = "select"
    /\ branch = "net"
    /\ input = <<97, 10, 10>>
    /\ taken = <<<<97, 10>>>>
    /\ published = <<<<97>>>>
    /\ stdin = <<10>>

====
